---- MODULE Spec2Model ----
(***************************************************************************)
(* Model of HGN (src/hamiltonian_generative_network.py): the forward pass, *)
(* the training step fit, and the persistence operations save and load.    *)
(* Two HGN objects, "A" and "B", share one directory on disk.  Execution   *)
(* is single-threaded: one call runs at a time, statement by statement.    *)
(***************************************************************************)
EXTENDS Integers, Sequences, FiniteSets, TLC

\* ---------------------------------------------------------------- bounds
MaxT == 2          \* a rollout batch has 1..MaxT time steps
MaxSteps == 3      \* the n_steps argument ranges over -1..MaxSteps
MaxW == 2          \* fit is called only while the weights are below MaxW
NumVals == 3       \* latent values, frames and losses are numbers mod NumVals
MaxSeed == 1       \* random seeds 0..MaxSeed

\* ------------------------------------------------------------- constants
Channels == 3      \* default of the channels argument
BetaNumerator == 1       \* beta = 0.01 = BetaNumerator / BetaDenominator
BetaDenominator == 100   \* losses are kept in units of 1 / BetaDenominator

Models == {"A", "B"}
Integrators == {"Leapfrog", "Euler"}
None == <<>>
Some(v) == <<v>>

\* The four learnable components, in the order load and save name them.
Fields == <<"encoder", "transformer", "hnn", "decoder">>

ENCODER_FILENAME == "encoder.pt"
TRANSFORMER_FILENAME == "transformer.pt"
HAMILTONIAN_FILENAME == "hamiltonian.pt"
DECODER_FILENAME == "decoder.pt"

Filename(f) ==
    CASE f = "encoder" -> ENCODER_FILENAME
      [] f = "transformer" -> TRANSFORMER_FILENAME
      [] f = "hnn" -> HAMILTONIAN_FILENAME
      [] f = "decoder" -> DECODER_FILENAME

Files == {Filename(Fields[j]) : j \in 1..4}

\* A module object: which network it is, the version v of its parameter
\* values, and the state of the parameters' .grad.
Module(kind, v, g) == [kind |-> kind, v |-> v, grad |-> g]
Params(mod) == [kind |-> mod.kind, v |-> mod.v]

\* torch.save pickles the module with its parameters; .grad is not pickled.
Serialize(mod) == [st |-> "ok", kind |-> mod.kind, v |-> mod.v]
\* torch.load builds a new module from the pickled one.
Deserialize(file) == Module(file.kind, file.v, "none")
Missing == [st |-> "missing", kind |-> "none", v |-> 0]
Corrupt == [st |-> "corrupt", kind |-> "none", v |-> 0]

\* ------------------------------------------------ external collaborators
\* conversions.concat_rgb: the encoder input built from the rollout batch.
ConcatRgb(T) == T

\* encoder(frames, sample): (z, mean, logvar); z is the mean when not sampling.
Encoder(w, x, sample, seed) ==
    LET mean == (w + x) % NumVals
        logvar == (2 * w + x + 1) % NumVals
    IN  [z |-> IF sample THEN (mean + logvar + seed + 1) % NumVals ELSE mean,
         mean |-> mean, logvar |-> logvar]

\* transformer(z): the initial canonical state (q0, p0).
Transformer(w, z) == [q |-> (z + w) % NumVals, p |-> (2 * z + w + 1) % NumVals]

\* integrator.step(q, p, hnn): one advance of the canonical state.
IntegratorStep(integ, w, s) ==
    IF integ = "Euler"
    THEN [q |-> (s.q + s.p + w) % NumVals, p |-> (s.p + s.q + 1) % NumVals]
    ELSE [q |-> (s.q + 2 * s.p + w + 1) % NumVals, p |-> (s.p + 2 * s.q + w) % NumVals]

\* decoder(q): the reconstructed frame.
Decoder(w, q) == (2 * q + w + 1) % NumVals

RECURSIVE SumSeq(_)
SumSeq(s) == IF s = <<>> THEN 0 ELSE Head(s) + SumSeq(Tail(s))

\* loss(input, target): a scalar, in hundredths.
Loss(input, target) == BetaDenominator * ((input + SumSeq(target)) % NumVals)

\* -0.5 * mean(1 + logvar - mu^2 - exp(logvar)), in whole units: zero when
\* mu = 0 and logvar = 0 and positive otherwise.
KlDiv(mu, logvar) == mu * mu + logvar * logvar

\* optimizer.step(): every parameter moves along its gradient.
OptimizerStep(mod) == Module(mod.kind, mod.v + 1, mod.grad)

\* ----------------------------------------------------------------- state
VARIABLES
    self,        \* self[m]: the fields of HGN object m
    disk,        \* disk[file]: the content of each file of the directory
    dirExists,   \* whether the directory exists
    pc,          \* the statement the running call is at
    call,        \* the running (or last) call: operation, object, arguments
    n_steps,     \* forward: the local n_steps
    prediction,  \* forward: the HgnResult being built
    qp,          \* forward: the locals q, p
    i,           \* forward: iterations of the loop done; load/save: file index
    log,         \* forward: the append_* calls made on prediction, in order
    calls,       \* forward: the collaborator calls made, with their arguments
    events,      \* fit: the steps of the training step made, in order
    tensor,      \* fit: value of the tensor bound to reconstruction_error
    lossOut,     \* fit: the value self.loss returned
    kl_div,      \* fit: the local kl_div
    ret,         \* the value returned by fit
    err,         \* the exception that ended the call
    pre,         \* self and disk when the call started
    saved,       \* the last completed save: whose, and what it wrote
    fresh        \* fresh[m]: m's components are those of the last save

vars == <<self, disk, dirExists, pc, call, n_steps, prediction, qp, i, log,
          calls, events, tensor, lossOut, kl_div, ret, err, pre, saved, fresh>>

fwdLocals == <<n_steps, prediction, qp, log, calls>>
fitLocals == <<events, tensor, lossOut, kl_div>>
world == <<self, disk, dirExists, saved, fresh>>

NoState == [q |-> 0, p |-> 0]
NoPrediction == [input |-> None, z |-> None, states |-> <<>>, recs |-> <<>>, steps |-> 0]
NoCall == [op |-> "none", m |-> "A", T |-> 0, n |-> None, variational |-> FALSE, seed |-> 0]
NoRet == [rec |-> None, kl |-> None]
\* The parameters of the four components of an HGN object.
Weights(obj) == [j \in 1..4 |-> Params(obj[Fields[j]])]

NoSave == [valid |-> FALSE, by |-> "A", w |-> [j \in 1..4 |-> [kind |-> "none", v |-> 0]],
           integrator |-> "Leapfrog", seq_len |-> 0]

\* HGN.__init__: the object holds what it is given.
HGN(v, integrator, seq_len, m) ==
    [encoder |-> Module("encoder", v, "none"),
     transformer |-> Module("transformer", v, "none"),
     hnn |-> Module("hnn", v, "none"), decoder |-> Module("decoder", v, "none"),
     integrator |-> integrator, optimizer |-> m, loss |-> m,
     seq_len |-> seq_len, channels |-> Channels]

Init ==
    /\ \E integ \in Integrators, sl \in {2, MaxSteps} :
          /\ integ = "Leapfrog" \/ sl = 2
          /\ self = [m \in Models |->
                       IF m = "A" THEN HGN(1, "Leapfrog", 2, m) ELSE HGN(0, integ, sl, m)]
    /\ disk = [f \in Files |-> Missing]
    /\ dirExists = FALSE
    /\ pc = "idle"
    /\ call = NoCall
    /\ n_steps = 0
    /\ prediction = NoPrediction
    /\ qp = NoState
    /\ i = 0
    /\ log = <<>>
    /\ calls = <<>>
    /\ events = <<>>
    /\ tensor = 0
    /\ lossOut = 0
    /\ kl_div = None
    /\ ret = NoRet
    /\ err = "none"
    /\ pre = [self |-> self, disk |-> disk, dirExists |-> dirExists]
    /\ saved = NoSave
    /\ fresh = [m \in Models |-> FALSE]

AtRest == pc \in {"idle", "returned", "raised"}

\* The locals of the last call are dropped; those of call c are new.
NewFrame(c, first, idx) ==
    /\ AtRest
    /\ call' = c
    /\ pc' = first
    /\ n_steps' = 0
    /\ prediction' = NoPrediction
    /\ qp' = NoState
    /\ i' = idx
    /\ log' = <<>>
    /\ calls' = <<>>
    /\ events' = <<>>
    /\ tensor' = 0
    /\ lossOut' = 0
    /\ kl_div' = None
    /\ ret' = NoRet
    /\ err' = "none"
    /\ pre' = [self |-> self, disk |-> disk, dirExists |-> dirExists]

\* A call starts.
Enter(c, first, idx) == NewFrame(c, first, idx) /\ UNCHANGED world

\* An exception leaves the call; nothing in HGN catches it.
Raise(e) == pc' = "raised" /\ err' = e

Called(fn, s) == [fn |-> fn, s |-> s]
AppendState(pr, s) == [pr EXCEPT !.states = Append(@, s)]
AppendReconstruction(pr, x) == [pr EXCEPT !.recs = Append(@, x)]
LogState(s) == [kind |-> "state", s |-> s, x |-> 0]
LogRec(x) == [kind |-> "rec", s |-> NoState, x |-> x]

\* --------------------------------------------------------------- forward
\* forward(rollout_batch, n_steps, variational) called from outside.
CallForward(m, T, n, v, seed) ==
    /\ m \in Models
    /\ Enter([op |-> "forward", m |-> m, T |-> T, n |-> n, variational |-> v,
              seed |-> seed], "f_concat", 0)

\* n_steps = self.seq_len if n_steps is None else n_steps
ResolveSteps(n, seq_len) == IF n = None THEN seq_len ELSE n[1]

\* rollout_batch = conversions.concat_rgb(rollout_batch): needs two frames.
ForwardConcat ==
    /\ pc = "f_concat"
    /\ n_steps' = ResolveSteps(call.n, self[call.m].seq_len)
    /\ IF call.T < 2
       THEN Raise("ShapeError") /\ UNCHANGED prediction
       ELSE /\ pc' = "f_result"
            /\ prediction' = [prediction EXCEPT !.input = Some(ConcatRgb(call.T))]
            /\ UNCHANGED err
    /\ UNCHANGED <<world, call, qp, i, log, calls, fitLocals, ret, pre>>

\* Mutant: the shape keeps the time dimension of the rollout batch.
PredictionStepsOfBatch(n, T) == T

\* prediction_shape = rollout_batch.shape; prediction_shape[1] = n_steps
\* The shape of what concat_rgb returns is taken to accept the assignment.
PredictionSteps(n, T) == n

\* prediction = HgnResult(batch_shape=prediction_shape); set_input
ForwardResult ==
    /\ pc = "f_result"
    /\ LET steps == PredictionSteps(n_steps, call.T)
       IN  IF steps <= 0
           THEN Raise("ShapeError") /\ UNCHANGED prediction
           ELSE /\ pc' = "f_encode"
                /\ prediction' = [prediction EXCEPT !.steps = steps]
                /\ UNCHANGED err
    /\ UNCHANGED <<world, call, n_steps, qp, i, log, calls, fitLocals, ret, pre>>

\* z, z_mean, z_logvar = self.encoder(rollout_batch, sample=variational); set_z
ForwardEncode ==
    /\ pc = "f_encode"
    /\ calls' = Append(calls, Called("encoder", NoState))
    /\ \/ Raise("EncoderError") /\ UNCHANGED prediction
       \/ /\ pc' = "f_transform"
          /\ prediction' = [prediction EXCEPT !.z =
                Some(Encoder(self[call.m].encoder.v, prediction.input[1],
                             call.variational, call.seed))]
          /\ UNCHANGED err
    /\ UNCHANGED <<world, call, n_steps, qp, i, log, fitLocals, ret, pre>>

\* q, p = self.transformer(z); prediction.append_state(q=q, p=p)
ForwardTransform ==
    /\ pc = "f_transform"
    /\ calls' = Append(calls, Called("transformer", NoState))
    /\ \/ Raise("TransformerError") /\ UNCHANGED <<prediction, qp, log>>
       \/ LET s == Transformer(self[call.m].transformer.v, prediction.z[1].z)
          IN  /\ qp' = s
              /\ prediction' = AppendState(prediction, s)
              /\ log' = Append(log, LogState(s))
              /\ pc' = "f_decode0"
              /\ UNCHANGED err
    /\ UNCHANGED <<world, call, n_steps, i, fitLocals, ret, pre>>

\* x_reconstructed = self.decoder(q); prediction.append_reconstruction(..)
Decode(next) ==
    /\ calls' = Append(calls, Called("decoder", [q |-> qp.q, p |-> 0]))
    /\ \/ Raise("DecoderError") /\ UNCHANGED <<prediction, log>>
       \/ LET x == Decoder(self[call.m].decoder.v, qp.q)
          IN  /\ prediction' = AppendReconstruction(prediction, x)
              /\ log' = Append(log, LogRec(x))
              /\ pc' = next
              /\ UNCHANGED err
    /\ UNCHANGED <<world, call, n_steps, qp, fitLocals, ret, pre>>

\* The reconstruction of the initial state.
ForwardDecodeInitial ==
    /\ pc = "f_decode0"
    /\ Decode("f_loop")
    /\ UNCHANGED i

\* Mutant: range(n_steps).
LoopIterationsOneMore(n) == n

\* range(n_steps - 1)
LoopIterations(n) == n - 1

\* for _ in range(n_steps - 1): ... return prediction
ForwardLoop ==
    /\ pc = "f_loop"
    /\ IF i < LoopIterations(n_steps)
       THEN pc' = "f_step"
       ELSE pc' = IF call.op = "fit" THEN "fit_loss" ELSE "returned"
    /\ UNCHANGED <<world, call, fwdLocals, i, fitLocals, ret, err, pre>>

\* Mutant: every step integrates from the initial state (q0, p0).
ForwardStepFromInitial ==
    /\ pc = "f_step"
    /\ calls' = Append(calls, Called("step", prediction.states[1]))
    /\ \/ Raise("IntegratorError") /\ UNCHANGED <<prediction, qp, log>>
       \/ LET s == IntegratorStep(self[call.m].integrator, self[call.m].hnn.v,
                                  prediction.states[1])
          IN  /\ qp' = s
              /\ prediction' = AppendState(prediction, s)
              /\ log' = Append(log, LogState(s))
              /\ pc' = "f_decode"
              /\ UNCHANGED err
    /\ UNCHANGED <<world, call, n_steps, i, fitLocals, ret, pre>>

\* q, p = self.integrator.step(q=q, p=p, hnn=self.hnn); append_state
ForwardStep ==
    /\ pc = "f_step"
    /\ calls' = Append(calls, Called("step", qp))
    /\ \/ Raise("IntegratorError") /\ UNCHANGED <<prediction, qp, log>>
       \/ LET s == IntegratorStep(self[call.m].integrator, self[call.m].hnn.v, qp)
          IN  /\ qp' = s
              /\ prediction' = AppendState(prediction, s)
              /\ log' = Append(log, LogState(s))
              /\ pc' = "f_decode"
              /\ UNCHANGED err
    /\ UNCHANGED <<world, call, n_steps, i, fitLocals, ret, pre>>

\* Mutant: the frame is decoded before q is advanced, from the previous state.
ForwardDecodePrevious ==
    /\ pc = "f_decode"
    /\ calls' = Append(calls, Called("decoder", [q |-> qp.q, p |-> 0]))
    /\ \/ Raise("DecoderError") /\ UNCHANGED <<prediction, log, i>>
       \/ LET x == Decoder(self[call.m].decoder.v,
                           prediction.states[Len(prediction.states) - 1].q)
          IN  /\ prediction' = AppendReconstruction(prediction, x)
              /\ log' = Append(log, LogRec(x))
              /\ pc' = "f_loop"
              /\ i' = i + 1
              /\ UNCHANGED err
    /\ UNCHANGED <<world, call, n_steps, qp, fitLocals, ret, pre>>

\* The reconstruction of the new state; the iteration ends.
ForwardDecode ==
    /\ pc = "f_decode"
    /\ Decode("f_loop")
    /\ i' = IF pc' = "f_loop" THEN i + 1 ELSE i

Forward ==
    \/ ForwardConcat
    \/ ForwardResult
    \/ ForwardEncode
    \/ ForwardTransform
    \/ ForwardDecodeInitial
    \/ ForwardLoop
    \/ ForwardStep
    \/ ForwardDecode

\* ------------------------------------------------------------------- fit
ZeroGrad(mod) == Module(mod.kind, mod.v, "zero")
Backward(mod) == Module(mod.kind, mod.v, "set")

\* The optimizer and autograd act on the parameters of all four components.
ZeroGradAll(obj) ==
    [obj EXCEPT !.encoder = ZeroGrad(@), !.transformer = ZeroGrad(@),
                !.hnn = ZeroGrad(@), !.decoder = ZeroGrad(@)]
BackwardAll(obj) ==
    [obj EXCEPT !.encoder = Backward(@), !.transformer = Backward(@),
                !.hnn = Backward(@), !.decoder = Backward(@)]
StepAll(obj) ==
    [obj EXCEPT !.encoder = OptimizerStep(@), !.transformer = OptimizerStep(@),
                !.hnn = OptimizerStep(@), !.decoder = OptimizerStep(@)]

\* fit(rollouts, variational) called from outside.
CallFit(m, T, v, seed) ==
    /\ \A j \in 1..4 : self[m][Fields[j]].v < MaxW
    /\ Enter([op |-> "fit", m |-> m, T |-> T, n |-> None, variational |-> v,
              seed |-> seed], "fit_zero", 0)

\* self.optimizer.zero_grad()
FitZeroGrad ==
    /\ pc = "fit_zero"
    /\ self' = [self EXCEPT ![call.m] = ZeroGradAll(@)]
    /\ events' = Append(events, "zero_grad")
    /\ pc' = "fit_forward"
    /\ UNCHANGED <<disk, dirExists, saved, fresh, call, fwdLocals, i, tensor,
                   lossOut, kl_div, ret, err, pre>>

\* prediction = self.forward(rollout_batch=rollouts, variational=variational)
FitForward ==
    /\ pc = "fit_forward"
    /\ events' = Append(events, "forward")
    /\ pc' = "f_concat"
    /\ UNCHANGED <<world, call, fwdLocals, i, tensor, lossOut, kl_div, ret, err, pre>>

\* if variational:
ComputesKl(variational) == variational

\* reconstruction_error = self.loss(input=.., target=..)
\* total_loss = reconstruction_error; kl_div = None
\* Both names are bound to the one tensor the loss returned.
FitLoss ==
    /\ pc = "fit_loss"
    /\ \/ Raise("LossError") /\ UNCHANGED <<events, tensor, lossOut>>
       \/ LET v == Loss(prediction.input[1], prediction.recs)
          IN  /\ lossOut' = v
              /\ tensor' = v
              /\ events' = Append(events, "loss")
              /\ pc' = IF ComputesKl(call.variational) THEN "fit_kl" ELSE "fit_backward"
              /\ UNCHANGED err
    /\ UNCHANGED <<world, call, fwdLocals, i, kl_div, ret, pre>>

\* kl_div = -0.5 * torch.mean(..); beta = 0.01; total_loss += beta * kl_div
\* += on a tensor adds in place: the tensor reconstruction_error names changes.
FitKl ==
    /\ pc = "fit_kl"
    /\ LET kl == KlDiv(prediction.z[1].mean, prediction.z[1].logvar)
       IN  /\ kl_div' = Some(BetaDenominator * kl)
           /\ tensor' = tensor + (BetaNumerator * BetaDenominator * kl) \div BetaDenominator
    /\ events' = Append(events, "kl")
    /\ pc' = "fit_backward"
    /\ UNCHANGED <<world, call, fwdLocals, i, lossOut, ret, err, pre>>

\* Mutant: the optimizer steps before the backward pass.
FitBackwardAfterStep ==
    /\ pc = "fit_backward"
    /\ \/ /\ Raise("BackwardError")
          /\ self' = [self EXCEPT ![call.m] = StepAll(@)]
          /\ UNCHANGED events
       \/ /\ self' = [self EXCEPT ![call.m] = BackwardAll(StepAll(@))]
          /\ events' = Append(events, "backward")
          /\ pc' = "fit_step"
          /\ UNCHANGED err
    /\ UNCHANGED <<disk, dirExists, saved, fresh, call, fwdLocals, i, tensor,
                   lossOut, kl_div, ret, pre>>

\* total_loss.backward()
FitBackward ==
    /\ pc = "fit_backward"
    /\ \/ Raise("BackwardError") /\ UNCHANGED <<self, events>>
       \/ /\ self' = [self EXCEPT ![call.m] = BackwardAll(@)]
          /\ events' = Append(events, "backward")
          /\ pc' = "fit_step"
          /\ UNCHANGED err
    /\ UNCHANGED <<disk, dirExists, saved, fresh, call, fwdLocals, i, tensor,
                   lossOut, kl_div, ret, pre>>

\* x.detach().numpy() if x is not None else None: the number without its graph.
Detach(t) == IF t = None THEN None ELSE Some(t[1])

\* Mutant: the gradients are cleared at the end of the step as well.
FitStepThenZeroGrad ==
    /\ pc = "fit_step"
    /\ self' = [self EXCEPT ![call.m] = ZeroGradAll(StepAll(@))]
    /\ fresh' = [fresh EXCEPT ![call.m] = FALSE]
    /\ events' = events \o <<"step", "zero_grad">>
    /\ ret' = [rec |-> Some(tensor), kl |-> kl_div]
    /\ pc' = "returned"
    /\ UNCHANGED <<disk, dirExists, saved, call, fwdLocals, i, tensor, lossOut,
                   kl_div, err, pre>>

\* self.optimizer.step(); return reconstruction_error_np, kl_div_np, prediction
FitStep ==
    /\ pc = "fit_step"
    /\ self' = [self EXCEPT ![call.m] = StepAll(@)]
    /\ fresh' = [fresh EXCEPT ![call.m] = FALSE]
    /\ events' = Append(events, "step")
    /\ ret' = [rec |-> Detach(Some(tensor)), kl |-> Detach(kl_div)]
    /\ pc' = "returned"
    /\ UNCHANGED <<disk, dirExists, saved, call, fwdLocals, i, tensor, lossOut,
                   kl_div, err, pre>>

Fit ==
    \/ FitZeroGrad
    \/ FitForward
    \/ FitLoss
    \/ FitKl
    \/ FitBackward
    \/ FitStep

\* ----------------------------------------------------------- persistence
NoArgs(op, m) == [op |-> op, m |-> m, T |-> 0, n |-> None, variational |-> FALSE, seed |-> 0]

\* save(directory) called from outside.
CallSave(m) ==
    /\ m \in Models
    /\ Enter(NoArgs("save", m), "save_mkdir", 1)

\* pathlib.Path(directory).mkdir(parents=True, exist_ok=True)
SaveMkdir ==
    /\ pc = "save_mkdir"
    /\ dirExists' = TRUE
    /\ pc' = "save"
    /\ UNCHANGED <<self, disk, saved, fresh, call, fwdLocals, i, fitLocals, ret, err, pre>>

\* The order of the four torch.save statements.
SaveOrder == <<"encoder", "transformer", "hnn", "decoder">>

\* The file each torch.save statement writes.
SavePath(f) == Filename(f)

\* torch.save(self.<component>, os.path.join(directory, <FILENAME>))
SaveFile ==
    /\ pc = "save"
    /\ disk' = [disk EXCEPT ![SavePath(SaveOrder[i])] =
                   Serialize(self[call.m][SaveOrder[i]])]
    /\ fresh' = [m \in Models |-> FALSE]
    /\ IF i = 4
       THEN /\ pc' = "returned"
            /\ i' = i
            /\ saved' = [valid |-> TRUE, by |-> call.m, w |-> Weights(self[call.m]),
                         integrator |-> self[call.m].integrator,
                         seq_len |-> self[call.m].seq_len]
       ELSE /\ pc' = "save"
            /\ i' = i + 1
            /\ saved' = [saved EXCEPT !.valid = FALSE]
    /\ UNCHANGED <<self, dirExists, call, fwdLocals, fitLocals, ret, err, pre>>

\* load(directory) called from outside.
CallLoad(m) ==
    /\ m \in Models
    /\ Enter(NoArgs("load", m), "load", 1)

\* Mutant: the components are loaded last to first.
LoadOrderReversed == <<"decoder", "hnn", "transformer", "encoder">>

\* The order of the four torch.load statements.
LoadOrder == <<"encoder", "transformer", "hnn", "decoder">>

\* Mutant: the Hamiltonian network is read from the decoder's file.
LoadPathCopied(f) == IF f = "hnn" THEN DECODER_FILENAME ELSE Filename(f)

\* The file each torch.load statement reads.
LoadPath(f) == Filename(f)

\* What torch.load finds at a path.
ReadFile(path) == IF dirExists THEN disk[path] ELSE Missing

\* Mutant: load also replaces the optimizer, by one over the loaded module.
LoadFileNewOptimizer ==
    /\ pc = "load"
    /\ LET f == LoadOrder[i]
           file == ReadFile(LoadPath(f))
       IN  CASE file.st = "missing" ->
                  Raise("FileNotFoundError") /\ UNCHANGED <<self, i, fresh>>
             [] file.st = "corrupt" ->
                  Raise("UnpicklingError") /\ UNCHANGED <<self, i, fresh>>
             [] file.st = "ok" ->
                  /\ self' = [self EXCEPT ![call.m][f] = Deserialize(file),
                                          ![call.m].optimizer = "new"]
                  /\ i' = i + 1
                  /\ pc' = IF i = 4 THEN "returned" ELSE "load"
                  /\ fresh' = [fresh EXCEPT ![call.m] = (i = 4 /\ saved.valid)]
                  /\ UNCHANGED err
    /\ UNCHANGED <<disk, dirExists, saved, call, fwdLocals, fitLocals, ret, pre>>

\* self.<component> = torch.load(os.path.join(directory, <FILENAME>))
LoadFile ==
    /\ pc = "load"
    /\ LET f == LoadOrder[i]
           file == ReadFile(LoadPath(f))
       IN  CASE file.st = "missing" ->
                  Raise("FileNotFoundError") /\ UNCHANGED <<self, i, fresh>>
             [] file.st = "corrupt" ->
                  Raise("UnpicklingError") /\ UNCHANGED <<self, i, fresh>>
             [] file.st = "ok" ->
                  /\ self' = [self EXCEPT ![call.m][f] = Deserialize(file)]
                  /\ i' = i + 1
                  /\ pc' = IF i = 4 THEN "returned" ELSE "load"
                  /\ fresh' = [fresh EXCEPT ![call.m] = (i = 4 /\ saved.valid)]
                  /\ UNCHANGED err
    /\ UNCHANGED <<disk, dirExists, saved, call, fwdLocals, fitLocals, ret, pre>>

\* Between calls one file of a complete checkpoint is deleted or damaged.
EnvDamage(file, to) ==
    /\ NewFrame(NoCall, "idle", 0)
    /\ dirExists
    /\ \A f \in Files : disk[f].st = "ok"
    /\ disk' = [disk EXCEPT ![file] = to]
    /\ UNCHANGED <<self, dirExists, saved, fresh>>

Persistence ==
    \/ SaveMkdir
    \/ SaveFile
    \/ LoadFile

StepArgs == {None} \cup {Some(n) : n \in -1..MaxSteps}
Seeds(v) == IF v THEN 0..MaxSeed ELSE {0}

\* Inference and training: every argument of forward and fit.
Next ==
    \/ \E m \in Models, T \in 1..MaxT, n \in StepArgs, v \in BOOLEAN :
          \E seed \in Seeds(v) : CallForward(m, T, n, v, seed)
    \/ \E T \in 1..MaxT, v \in BOOLEAN :
          \E seed \in Seeds(v) : CallFit("A", T, v, seed)
    \/ Forward
    \/ Fit

Spec == Init /\ [][Next]_vars

\* Persistence: A is trained and saved, B loads and predicts.
NextPersist ==
    \/ \E n \in {None, Some(MaxSteps)} : CallForward("B", MaxT, n, TRUE, 0)
    \/ CallFit("A", MaxT, TRUE, 0)
    \/ CallSave("A")
    \/ CallLoad("B")
    \/ \E file \in Files, to \in {Missing, Corrupt} : EnvDamage(file, to)
    \/ Forward
    \/ Fit
    \/ Persistence

SpecPersist == Init /\ [][NextPersist]_vars

\* ---------------------------------------------------------------- claims
\* forward has returned its result: to the caller, or to fit.
ForwardReturned ==
    \/ call.op = "forward" /\ pc = "returned"
    \/ call.op = "fit" /\ pc \in {"fit_loss", "fit_kl", "fit_backward", "fit_step", "returned"}

\* The step count the caller asked for: n_steps, or seq_len when omitted.
AskedSteps == IF call.n = None THEN pre.self[call.m].seq_len ELSE call.n[1]

IsPrefix(s, t) == Len(s) <= Len(t) /\ \A j \in 1..Len(s) : s[j] = t[j]
CallsTo(fn) == SelectSeq(calls, LAMBDA c : c.fn = fn)

C2_FailedFitKeepsParameters ==
    (call.op = "fit" /\ pc = "raised") =>
        /\ err # "none"
        /\ \A j \in 1..Len(events) : events[j] # "step"
        /\ Weights(self[call.m]) = Weights(pre.self[call.m])

C2_Witness ==
    /\ call.op = "fit" /\ pc = "raised" /\ err = "BackwardError"
    /\ self[call.m] # pre.self[call.m]

\* C3: a fit call that returns gives a KL value exactly when variational is
\* true (None otherwise), and in both cases gives the reconstruction error,
\* the value the loss function computed.
C3_FitReturnsLossAndKl ==
    (call.op = "fit" /\ pc = "returned") =>
        /\ call.variational => ret.kl # None
        /\ ~call.variational => ret.kl = None
        /\ ret.rec = Some(lossOut)

FitOrder == <<"zero_grad", "forward", "loss", "backward", "step">>
Named(es) == SelectSeq(es, LAMBDA e : e # "kl")

\* C7: the steps of fit happen in the order zero_grad, forward, loss,
\* backward, step, each at most once at any moment and each exactly once
\* when fit returns; the forward pass runs after zero_grad and before loss.
C7_FitOrder ==
    call.op = "fit" =>
        /\ IsPrefix(Named(events), FitOrder)
        /\ pc = "returned" => Named(events) = FitOrder
        /\ calls # <<>> => Len(Named(events)) >= 2
        /\ Len(Named(events)) >= 3 => Len(prediction.recs) = AskedSteps

C7_Witness ==
    /\ call.op = "fit" /\ pc = "returned" /\ call.variational
    /\ Named(events) = FitOrder

\* C8: the states and the reconstructions of the result are exactly what was
\* appended, in order; appends alternate state, reconstruction; each
\* reconstruction is the decoder's output on q of the state of its index; a
\* returned result holds as many of each as steps were produced.
C8_ResultPairsStatesAndFrames ==
    call.op \in {"forward", "fit"} =>
        /\ \A j \in 1..Len(log) : log[j].kind = IF j % 2 = 1 THEN "state" ELSE "rec"
        /\ Len(prediction.states) = (Len(log) + 1) \div 2
        /\ Len(prediction.recs) = Len(log) \div 2
        /\ \A j \in 1..Len(prediction.states) : prediction.states[j] = log[2 * j - 1].s
        /\ \A j \in 1..Len(prediction.recs) :
              /\ prediction.recs[j] = log[2 * j].x
              /\ prediction.recs[j] =
                    Decoder(pre.self[call.m].decoder.v, prediction.states[j].q)
        /\ ForwardReturned =>
              /\ Len(prediction.states) = i + 1
              /\ Len(prediction.recs) = i + 1

C8_Witness ==
    /\ call.op = "forward" /\ pc = "returned"
    /\ Len(prediction.recs) = 3
    /\ prediction.states[2] # prediction.states[1]

\* The calls forward makes for k steps: encoder, transformer, decoder, then
\* k - 1 times step, decoder.
CallOrder(k) ==
    [j \in 1..(2 * k + 1) |->
        IF j = 1 THEN "encoder"
        ELSE IF j = 2 THEN "transformer"
        ELSE IF j % 2 = 1 THEN "decoder" ELSE "step"]

\* C9: a forward pass of k >= 1 steps calls the encoder once, the transformer
\* once and the integrator k - 1 times, one after the other: the first step
\* on the transformer's (q0, p0), each later one on the state the previous
\* step returned, so state t+1 is the step of state t.
C9_IntegratorChain ==
    ForwardReturned =>
        LET obj == pre.self[call.m]
            enc == Encoder(obj.encoder.v, ConcatRgb(call.T), call.variational, call.seed)
            steps == CallsTo("step")
        IN  /\ Len(CallsTo("encoder")) = 1
            /\ Len(CallsTo("transformer")) = 1
            /\ Len(steps) = AskedSteps - 1
            /\ [j \in 1..Len(calls) |-> calls[j].fn] = CallOrder(AskedSteps)
            /\ prediction.states[1] = Transformer(obj.transformer.v, enc.z)
            /\ \A t \in 1..(AskedSteps - 1) :
                  /\ steps[t].s = prediction.states[t]
                  /\ prediction.states[t + 1] =
                        IntegratorStep(obj.integrator, obj.hnn.v, prediction.states[t])

C9_Witness ==
    /\ call.op = "forward" /\ pc = "returned"
    /\ AskedSteps = 3
    /\ Len(CallsTo("step")) = 2
    /\ prediction.states[3] # prediction.states[2]

\* The states of a rollout of k steps from the state s.
RECURSIVE Trajectory(_, _, _, _)
Trajectory(integ, hv, s, k) ==
    IF k <= 1 THEN <<s>>
    ELSE <<s>> \o Trajectory(integ, hv, IntegratorStep(integ, hv, s), k - 1)

\* The result of forward as a function of the four components' parameters w,
\* the integrator, the rollout batch, the step count and the random seed.
ForwardOutput(w, integ, T, k, v, seed) ==
    LET enc == Encoder(w[1].v, ConcatRgb(T), v, seed)
        states == Trajectory(integ, w[3].v, Transformer(w[2].v, enc.z), k)
    IN  [input |-> Some(ConcatRgb(T)), z |-> Some(enc), states |-> states,
         recs |-> [j \in 1..k |-> Decoder(w[4].v, states[j].q)], steps |-> k]

\* After load returns, the object holds the parameters the last save wrote.
LoadedIsSaved ==
    (call.op = "load" /\ pc = "returned" /\ saved.valid) =>
        Weights(self[call.m]) = saved.w

\* forward on the object that loaded returns what forward on the saved one,
\* with the same arguments, would.
SameOutputAsSaved ==
    prediction = ForwardOutput(saved.w, saved.integrator, call.T,
                               ResolveSteps(call.n, saved.seq_len),
                               call.variational, call.seed)

\* C5 as stated: after save by A and load by B, with no save in between, B
\* holds the four components A had at the save, and forward on B returns
\* what forward on A as saved returns for the same input and seed.
C5_RoundTripAnyObject ==
    /\ LoadedIsSaved
    /\ (call.op = "forward" /\ pc = "returned" /\ fresh[call.m]) => SameOutputAsSaved

\* C5 amended: the same, for an object constructed with the integrator of
\* the saved one, and with its seq_len when n_steps is omitted.
C5_RoundTripSameConfiguration ==
    /\ LoadedIsSaved
    /\ (/\ call.op = "forward" /\ pc = "returned" /\ fresh[call.m]
        /\ self[call.m].integrator = saved.integrator
        /\ call.n = None => self[call.m].seq_len = saved.seq_len)
          => SameOutputAsSaved

C5_Witness ==
    /\ call.op = "forward" /\ pc = "returned" /\ call.m = "B" /\ fresh["B"]
    /\ saved.by = "A" /\ self["B"].integrator = saved.integrator
    /\ Weights(self["B"]) = saved.w
    /\ Weights(self["A"]) # saved.w
    /\ Len(prediction.states) = MaxSteps

NonComponents == {"optimizer", "loss", "integrator", "seq_len", "channels"}

\* C6: save and load leave optimizer, loss, integrator, seq_len and channels
\* of every object as they were; save leaves the four components as they
\* were; load changes nothing but the four components of its object.
C6_PersistenceFrame ==
    call.op \in {"save", "load"} =>
        /\ \A m \in Models, f \in NonComponents : self[m][f] = pre.self[m][f]
        /\ call.op = "save" => self = pre.self
        /\ call.op = "load" =>
              /\ disk = pre.disk /\ dirExists = pre.dirExists
              /\ \A m \in Models \ {call.m} : self[m] = pre.self[m]

C6_Witness ==
    /\ call.op = "load" /\ pc = "returned"
    /\ \A j \in 1..4 : self[call.m][Fields[j]] # pre.self[call.m][Fields[j]]

\* C10: load replaces encoder, transformer, hnn, decoder in this order, one
\* file at a time: with i the file being read, the components before i are
\* the loaded ones and the others are the previous ones; when reading file
\* i fails the call ends with the error, in that mixed state.
C10_LoadReplacesInOrder ==
    call.op = "load" =>
        /\ \A j \in 1..4 :
              self[call.m][Fields[j]] =
                 IF j < i THEN Deserialize(pre.disk[Filename(Fields[j])])
                 ELSE pre.self[call.m][Fields[j]]
        /\ pc = "raised" =>
              /\ i \in 1..4
              /\ err \in {"FileNotFoundError", "UnpicklingError"}
              /\ ~pre.dirExists \/ pre.disk[Filename(Fields[i])].st # "ok"
        /\ pc = "returned" => i = 5

C10_Witness ==
    /\ call.op = "load" /\ pc = "raised" /\ i = 3
    /\ self[call.m].encoder # pre.self[call.m].encoder
    /\ self[call.m].transformer # pre.self[call.m].transformer
    /\ self[call.m].hnn = pre.self[call.m].hnn
    /\ self[call.m].decoder = pre.self[call.m].decoder

====
